---- MODULE Spec2Model ----
(***************************************************************************)
(* Model of the "get collections v4" endpoint                              *)
(* (src/src/api/endpoints/collections/get-collections/v4.ts): the route's  *)
(* query validation, the handler's filter composition, its sort / keyset   *)
(* cursor logic, the two awaited external calls (collection-set resolver   *)
(* and store query) and a client that walks the pages of one request over  *)
(* a frozen snapshot of the collections table.                             *)
(***************************************************************************)
EXTENDS Integers, Sequences, FiniteSets, TLC

(***************************************************************************)
(* Bounds                                                                  *)
(***************************************************************************)
\* number of rows of the collections table in the frozen snapshot; volumes
\* range over 1..MaxRows, which realises every order / tie pattern of the rows
MaxRows == 2

(***************************************************************************)
(* Values                                                                  *)
(***************************************************************************)
\* SQL NULL / JS null for numeric columns and for an omitted numeric key
NULL == 0 - 1
\* an omitted (undefined) string key of request.query
Undefined == "undefined"
\* JS null in a string-typed position (the response continuation)
Null == "null"

Ids == 1..MaxRows
Vals == 1..MaxRows

\* Joi: limit: Joi.number().integer().min(1).max(20).default(20)
LimitMin == 1
LimitMax == 20

VolumeFields == {"day1_volume", "day7_volume", "day30_volume", "all_time_volume"}
SortSelectors == {"1DayVolume", "7DayVolume", "30DayVolume", "allTimeVolume"}

\* node-postgres hands a NUMERIC column to the handler as its decimal text
Digits == <<"0", "1", "2", "3", "4", "5", "6", "7", "8", "9">>
ToText(n) == IF n = NULL THEN Null ELSE Digits[n + 1]
\* the store casts the text parameter of "field < $/continuation/" to NUMERIC
IsNumericText(s) == \E n \in 0..9 : Digits[n + 1] = s
ParseNumeric(s) == CHOOSE n \in 0..9 : Digits[n + 1] = s

(***************************************************************************)
(* The frozen snapshot of the collections table                            *)
(***************************************************************************)
CommunityOf(i) == IF i % 2 = 1 THEN "artblocks" ELSE "punks"
NameOf(i) == IF i % 3 = 1 THEN <<"a", "p", "e">>
             ELSE IF i % 3 = 2 THEN <<"a", "p", "e", "s">>
             ELSE <<"c", "a", "t">>
Slugs == <<"slug-1", "slug-2", "slug-3", "slug-4", "slug-5">>
SlugOf(i) == Slugs[i]
\* contract addresses as the 0x-prefixed text of the API and as the bytea
\* value of the contract column
Addresses == <<"0x01", "0x02", "0x03", "0x04", "0x05">>
Buffers == <<"\\x01", "\\x02", "\\x03", "\\x04", "\\x05">>
ContractOf(i) == Buffers[i]
toBuffer(a) == Buffers[CHOOSE k \in 1..Len(Addresses) : Addresses[k] = a]

\* The four volume columns of a row, drawn from one value v per row so that
\* the four columns order the rows differently and carry NULLs in different
\* rows: all-time = v, 30-day = reversed, 7-day = NULL at the top value,
\* 1-day = one shared value (all ties).
VolumeProfile(v) ==
    [all_time_volume |-> v,
     day30_volume    |-> IF v = NULL THEN NULL ELSE MaxRows + 1 - v,
     day7_volume     |-> IF v = NULL THEN 1 ELSE IF v = MaxRows THEN NULL ELSE v,
     day1_volume     |-> IF v = NULL THEN NULL ELSE 1]

Row(i, v) ==
    [id |-> i, community |-> CommunityOf(i), contract |-> ContractOf(i),
     name |-> NameOf(i), slug |-> SlugOf(i), volume |-> VolumeProfile(v)]

Snapshots == { [i \in Ids |-> Row(i, b[i])] : b \in [Ids -> Vals \cup {NULL}] }

\* CollectionSets.getCollectionsIds: the membership of the known sets
getCollectionsIds(setId) ==
    IF setId = "set-some" THEN <<1, MaxRows>> ELSE <<>>

(***************************************************************************)
(* Requests                                                                *)
(***************************************************************************)
\* what a client may put in the query string; an omitted key is Undefined
\* (NULL for limit, the empty text for name)
\* (contract and slug each name one collection: at most one of them is sent)
RawRequests ==
    { r \in [collectionsSetId : {Undefined, "set-empty", "set-some"},
             community        : {Undefined, "artblocks"},
             contract         : {Undefined, "0x02"},
             name             : {<<>>, <<"a", "p", "e">>},
             slug             : {Undefined, "slug-1"},
             sortBy           : {Undefined, "floorAskPrice"} \cup SortSelectors,
             limit            : {NULL, 0} \cup (1..MaxRows),
             continuation     : {Undefined, "not-a-number"}] :
        r.contract = Undefined \/ r.slug = Undefined }

\* Joi.object({...}).or(...): defaults are filled in key by key, then the
\* object-level "or" looks at the keys of the resulting value
ApplyDefaults(raw) ==
    [raw EXCEPT !.sortBy = IF raw.sortBy = Undefined THEN "allTimeVolume" ELSE @,
                !.limit  = IF raw.limit = NULL THEN LimitMax ELSE @]

KeysValid(v) ==
    /\ v.sortBy \in SortSelectors
    /\ v.limit \in LimitMin..LimitMax

OrPeersPresent(v) ==
    \/ v.collectionsSetId # Undefined
    \/ v.community # Undefined
    \/ v.contract # Undefined
    \/ v.name # <<>>
    \/ v.sortBy # Undefined

ValidateQuery(raw) ==
    LET v == ApplyDefaults(raw)
    IN  [ok |-> KeysValid(v) /\ OrPeersPresent(v), value |-> v]

\* request.query as the handler sees and mutates it
AsQuery(v) ==
    [collectionsSetId |-> v.collectionsSetId, community |-> v.community,
     contract |-> v.contract, name |-> v.name, slug |-> v.slug,
     sortBy |-> v.sortBy, limit |-> v.limit, continuation |-> v.continuation,
     collectionsIds |-> <<>>]

NoQuery == AsQuery(ApplyDefaults(
    [collectionsSetId |-> Undefined, community |-> Undefined,
     contract |-> Undefined, name |-> <<>>, slug |-> Undefined,
     sortBy |-> Undefined, limit |-> NULL, continuation |-> Undefined]))

(***************************************************************************)
(* Filter composition and sort / cursor clauses of the handler             *)
(***************************************************************************)
Cond(col, op) == [col |-> col, op |-> op]

\* the first switch on query.sortBy: the column of the resume predicate
ResumeColumn(sortBy) ==
    CASE sortBy = "1DayVolume"  -> "day1_volume"
      [] sortBy = "7DayVolume"  -> "day7_volume"
      [] sortBy = "30DayVolume" -> "day30_volume"
      [] OTHER                  -> "all_time_volume"

\* orderBy: initialised to all_time_volume, overwritten by three cases
OrderByColumn(sortBy) ==
    CASE sortBy = "1DayVolume"  -> "day1_volume"
      [] sortBy = "7DayVolume"  -> "day7_volume"
      [] sortBy = "30DayVolume" -> "day30_volume"
      [] OTHER                  -> "all_time_volume"

\* variant of the second switch: the 30-day case reads the 7-day column
SeedColumnDrift(sortBy) ==
    CASE sortBy = "1DayVolume"  -> "day1_volume"
      [] sortBy = "7DayVolume"  -> "day7_volume"
      [] sortBy = "30DayVolume" -> "day7_volume"
      [] OTHER                  -> "all_time_volume"

\* the second switch on query.sortBy: the column read off the last row
SeedColumn(sortBy) ==
    CASE sortBy = "1DayVolume"  -> "day1_volume"
      [] sortBy = "7DayVolume"  -> "day7_volume"
      [] sortBy = "30DayVolume" -> "day30_volume"
      [] OTHER                  -> "all_time_volume"

\* variant without the emptiness test: the IN predicate is always pushed
SetConditionAlways(ids) == <<Cond("id", "IN")>>

\* if (!_.isEmpty(collectionsIds)) { ... conditions.push(IN) }
SetCondition(ids) ==
    IF ids # <<>> THEN <<Cond("id", "IN")>> ELSE <<>>

\* the conditions array in push order; ids is the resolver's answer
\* (<<>> when no collection set was asked for)
Conditions(q, ids) ==
       (IF q.community # Undefined THEN <<Cond("community", "=")>> ELSE <<>>)
    \o (IF q.collectionsSetId # Undefined THEN SetCondition(ids) ELSE <<>>)
    \o (IF q.contract # Undefined THEN <<Cond("contract", "=")>> ELSE <<>>)
    \o (IF q.name # <<>> THEN <<Cond("name", "ILIKE")>> ELSE <<>>)
    \o (IF q.slug # Undefined THEN <<Cond("slug", "=")>> ELSE <<>>)
    \o (IF q.continuation # Undefined
        THEN <<Cond(ResumeColumn(q.sortBy), "<")>> ELSE <<>>)

\* the parameter object handed to the store: query after the handler's
\* in-place rewrites of collectionsIds, contract and name
Params(q, ids) ==
    [q EXCEPT !.collectionsIds = IF q.collectionsSetId # Undefined THEN ids ELSE @,
              !.contract = IF @ # Undefined THEN toBuffer(@) ELSE @,
              !.name = IF @ # <<>> THEN <<"%">> \o @ \o <<"%">> ELSE @]

BuildSql(q, ids) ==
    [where |-> Conditions(q, ids), orderBy |-> OrderByColumn(q.sortBy),
     limit |-> q.limit]

NoSql == [where |-> <<>>, orderBy |-> "", limit |-> 0]

(***************************************************************************)
(* The store: evaluation of the composed SQL over the snapshot             *)
(***************************************************************************)
\* text ILIKE '%inner%'
ILike(text, pattern) ==
    /\ Len(pattern) >= 2
    /\ pattern[1] = "%" /\ pattern[Len(pattern)] = "%"
    /\ LET inner == SubSeq(pattern, 2, Len(pattern) - 1)
       IN  \E k \in 0..(Len(text) - Len(inner)) :
               SubSeq(text, k + 1, k + Len(inner)) = inner

\* variants of the resume predicate: "<=" for "<", and the cursor ignored
ResumeHoldsOrEqual(value, cursor) == value # NULL /\ value <= cursor
ResumeHoldsIgnored(value, cursor) == value # NULL /\ cursor = cursor

\* collections.<volume> < $/continuation/ : never true of a NULL column
ResumeHolds(value, cursor) == value # NULL /\ value < cursor

InList(ids) == { ids[k] : k \in 1..Len(ids) }

EvalCond(c, row, params) ==
    CASE c.op = "IN"    -> row.id \in InList(params.collectionsIds)
      [] c.op = "ILIKE" -> ILike(row.name, params.name)
      [] c.op = "<"     -> ResumeHolds(row.volume[c.col],
                                       ParseNumeric(params.continuation))
      [] c.col = "community" -> row.community = params.community
      [] c.col = "contract"  -> row.contract = params.contract
      [] OTHER               -> row.slug = params.slug

\* the cast of a non-numeric text to NUMERIC is an error of the statement
StoreRejects(sql, params) ==
    \E k \in 1..Len(sql.where) :
        sql.where[k].op = "<" /\ ~IsNumericText(params.continuation)

Matching(sql, params, snap) ==
    { i \in Ids : \A k \in 1..Len(sql.where) : EvalCond(sql.where[k], snap[i], params) }

\* ORDER BY col DESC NULLS LAST: a may stand before b
MayPrecede(a, b) == b = NULL \/ (a # NULL /\ a >= b)

Orderings(S, col, snap) ==
    { s \in [1..Cardinality(S) -> S] :
        /\ \A j, k \in 1..Cardinality(S) : j # k => s[j] # s[k]
        /\ \A j, k \in 1..Cardinality(S) :
              j < k => MayPrecede(snap[s[j]].volume[col], snap[s[k]].volume[col]) }

Min(a, b) == IF a < b THEN a ELSE b

\* every row sequence the store may answer with: rows of equal sort value
\* come in any order, LIMIT cuts the ordered rows
StoreResults(sql, params, snap) ==
    LET S == Matching(sql, params, snap)
    IN  { SubSeq(s, 1, Min(sql.limit, Cardinality(S))) : s \in Orderings(S, sql.orderBy, snap) }

(***************************************************************************)
(* Projection and continuation                                             *)
(***************************************************************************)
\* Of the response record only the id, slug, name and volume keys are kept;
\* the includeTopBid join adds two columns to each row and no row.
\* formatEth: wei as a decimal with 18 fractional digits
formatEth(v) == [wei |-> v, decimals |-> 18]
NoAmount == [wei |-> NULL, decimals |-> 0]

Project(row) ==
    [id |-> row.id, slug |-> row.slug, name |-> row.name,
     volume |-> [f \in VolumeFields |->
                   IF row.volume[f] # NULL /\ row.volume[f] # 0
                   THEN formatEth(row.volume[f]) ELSE NoAmount]]

Projection(rows, snap) == [k \in 1..Len(rows) |-> Project(snap[rows[k]])]

\* "Set the continuation"
NextContinuation(rows, q, snap) ==
    IF Len(rows) = q.limit
    THEN ToText(snap[rows[Len(rows)]].volume[SeedColumn(q.sortBy)])
    ELSE Null

(***************************************************************************)
(* State                                                                   *)
(***************************************************************************)
VARIABLES
    snapshot,      \* the collections table, frozen
    request,       \* the query string of the request being served, as sent
    query,         \* request.query inside the handler
    pc,            \* idle | handler | resolving | querying |
                   \* responded | failed | rejected
    sql,           \* the composed statement
    result,        \* the rows the store returned (ids, in order)
    collections,   \* the projected page of the response
    continuation,  \* the continuation of the response
    error,         \* the error the request failed with, "" if none
    calls,         \* external-call events of the request being served
    seen,          \* ids of all pages of the walk so far, concatenated
    cursors        \* continuations the client has fed back, in order

vars == <<snapshot, request, query, pc, sql, result, collections,
          continuation, error, calls, seen, cursors>>

NoRequest ==
    [collectionsSetId |-> Undefined, community |-> Undefined,
     contract |-> Undefined, name |-> <<>>, slug |-> Undefined,
     sortBy |-> Undefined, limit |-> NULL, continuation |-> Undefined]

Init ==
    /\ snapshot \in Snapshots
    /\ request = NoRequest
    /\ query = NoQuery
    /\ pc = "idle"
    /\ sql = NoSql
    /\ result = <<>>
    /\ collections = <<>>
    /\ continuation = Null
    /\ error = ""
    /\ calls = <<>>
    /\ seen = <<>>
    /\ cursors = <<>>

\* compose the statement and hand it to the store (edb.manyOrNone)
IssueQuery(q, ids, events) ==
    /\ query' = Params(q, ids)
    /\ sql' = BuildSql(q, ids)
    /\ calls' = events \o <<"query">>
    /\ pc' = "querying"

\* the handler from its entry to its first await, request.query being q
StartHandler(q) ==
    /\ result' = <<>>
    /\ collections' = <<>>
    /\ continuation' = Null
    /\ error' = ""
    /\ IF q.collectionsSetId # Undefined
       THEN /\ query' = q
            /\ sql' = NoSql
            /\ calls' = <<"resolve">>
            /\ pc' = "resolving"
       ELSE IssueQuery(q, <<>>, <<>>)

\* the route: validate.query, then the handler or a 400
Route(raw) ==
    LET v == ValidateQuery(raw)
    IN  /\ request' = raw
        /\ IF v.ok
           THEN StartHandler(AsQuery(v.value))
           ELSE /\ query' = NoQuery
                /\ sql' = NoSql
                /\ result' = <<>>
                /\ collections' = <<>>
                /\ continuation' = Null
                /\ calls' = <<>>
                /\ pc' = "rejected"
                /\ error' = "ValidationError"

\* the first request of a walk
Receive(raw) ==
    /\ pc = "idle"
    /\ Route(raw)
    /\ UNCHANGED <<snapshot, seen, cursors>>

\* the client feeds the response's continuation into the same request
NextPage ==
    /\ pc = "responded"
    /\ continuation # Null
    /\ cursors' = Append(cursors, continuation)
    /\ Route([request EXCEPT !.continuation = continuation])
    /\ UNCHANGED <<snapshot, seen>>

\* CollectionSets.getCollectionsIds resolves
ResolverReturn ==
    /\ pc = "resolving"
    /\ IssueQuery(query, getCollectionsIds(query.collectionsSetId),
                  calls \o <<"resolved">>)
    /\ UNCHANGED <<snapshot, request, result, collections, continuation,
                   error, seen, cursors>>

\* variant: the resolver's failure is swallowed and the query goes out
ResolverThrowSwallowed ==
    /\ pc = "resolving"
    /\ IssueQuery(query, <<>>, calls \o <<"resolve-threw">>)
    /\ UNCHANGED <<snapshot, request, result, collections, continuation,
                   error, seen, cursors>>

\* CollectionSets.getCollectionsIds rejects: catch, log, rethrow
ResolverThrow ==
    /\ pc = "resolving"
    /\ calls' = Append(calls, "resolve-threw")
    /\ pc' = "failed"
    /\ error' = "ResolverError"
    /\ UNCHANGED <<snapshot, request, query, sql, result, collections,
                   continuation, seen, cursors>>

\* edb.manyOrNone resolves: project the rows, set the continuation, return
StoreReturn ==
    /\ pc = "querying"
    /\ ~StoreRejects(sql, query)
    /\ \E rows \in StoreResults(sql, query, snapshot) :
          /\ result' = rows
          /\ collections' = Projection(rows, snapshot)
          /\ continuation' = NextContinuation(rows, query, snapshot)
          /\ seen' = seen \o rows
    /\ calls' = Append(calls, "rows")
    /\ pc' = "responded"
    /\ UNCHANGED <<snapshot, request, query, sql, error, cursors>>

\* edb.manyOrNone rejects: catch, log, rethrow
StoreThrow ==
    /\ pc = "querying"
    /\ calls' = Append(calls, "query-threw")
    /\ pc' = "failed"
    /\ error' = "StoreError"
    /\ UNCHANGED <<snapshot, request, query, sql, result, collections,
                   continuation, seen, cursors>>

Next ==
    \/ \E raw \in RawRequests : Receive(raw)
    \/ NextPage
    \/ ResolverReturn
    \/ ResolverThrow
    \/ StoreReturn
    \/ StoreThrow

Spec == Init /\ [][Next]_vars

(***************************************************************************)
(* The handler on its own: request.query has passed the type / shape rules *)
(* of the route, but the sort selector may be any text                     *)
(***************************************************************************)
HandlerInputs ==
    { ApplyDefaults(r) : r \in { x \in RawRequests : x.limit # 0 } }

Invoke(q) ==
    /\ pc = "idle"
    /\ request' = q
    /\ StartHandler(AsQuery(q))
    /\ UNCHANGED <<snapshot, seen, cursors>>

InvokeNextPage ==
    /\ pc = "responded"
    /\ continuation # Null
    /\ cursors' = Append(cursors, continuation)
    /\ request' = [request EXCEPT !.continuation = continuation]
    /\ StartHandler(AsQuery(request'))
    /\ UNCHANGED <<snapshot, seen>>

HandlerNext ==
    \/ \E q \in HandlerInputs : Invoke(q)
    \/ InvokeNextPage
    \/ ResolverReturn
    \/ ResolverThrow
    \/ StoreReturn
    \/ StoreThrow

HandlerSpec == Init /\ [][HandlerNext]_vars

(***************************************************************************)
(* Properties                                                              *)
(***************************************************************************)
\* the volume column each sort selector stands for
SortField(selector) ==
    CASE selector = "1DayVolume"  -> "day1_volume"
      [] selector = "7DayVolume"  -> "day7_volume"
      [] selector = "30DayVolume" -> "day30_volume"
      [] OTHER                    -> "all_time_volume"

SortValue(i) == snapshot[i].volume[SortField(query.sortBy)]

IsResume(c) == c.op = "<"
IsFilter(c) == c.op # "<"

\* the rows matching the filters of the request, the resume predicate aside
FilterRows ==
    Matching([sql EXCEPT !.where = SelectSeq(sql.where, IsFilter)], query, snapshot)

Answered == pc = "responded"
Terminal == pc \in {"responded", "failed", "rejected"}
WalkEnded == Answered /\ continuation = Null
BoundaryValues == { ParseNumeric(cursors[k]) : k \in 1..Len(cursors) }
LastRow == result[Len(result)]
Count(event) == Cardinality({ k \in 1..Len(calls) : calls[k] = event })
NoFilterNoSort(r) ==
    /\ r.collectionsSetId = Undefined
    /\ r.community = Undefined
    /\ r.contract = Undefined
    /\ r.name = <<>>
    /\ r.sortBy = Undefined

\* C1: once a walk that started without a continuation has reached a null
\* continuation, its pages hold only rows matching the filters, and every
\* matching row whose sort value is not a page-boundary cursor value - rows
\* with a NULL sort value included - is on some page.
C1_PagesCoverMatchingRows ==
    WalkEnded =>
        /\ InList(seen) \subseteq FilterRows
        /\ \A i \in FilterRows :
              SortValue(i) \notin BoundaryValues => i \in InList(seen)

\* C2: no collection id occurs twice in the concatenated pages of a walk,
\* whatever order the store gives to rows of equal sort value.
C2_NoRepeatedIdentifier ==
    \A j, k \in 1..Len(seen) : j # k => seen[j] # seen[k]

\* a later page of a walk has been answered over rows that tie on the sort column
C2_Witness ==
    /\ Answered
    /\ cursors # <<>>
    /\ \E i, j \in FilterRows :
          i # j /\ SortValue(i) # NULL /\ SortValue(i) = SortValue(j)

\* C3: a page of exactly limit rows carries the last row's sort value as its
\* continuation, a shorter page carries null, and the continuation is null
\* only for a shorter page.
C3_ContinuationIffFullPage ==
    Answered =>
        /\ Len(result) = query.limit => continuation = ToText(SortValue(LastRow))
        /\ Len(result) < query.limit => continuation = Null
        /\ continuation = Null => Len(result) < query.limit

\* C4: a request that is valid but for a continuation that is no number, and
\* whose resolver call did not fail, ends with the InvalidCursor error.
C4_InvalidCursorSurfaced ==
    ( /\ Terminal
      /\ request.continuation # Undefined
      /\ ~IsNumericText(request.continuation)
      /\ ValidateQuery(request).ok
      /\ Count("resolve-threw") = 0 )
    => /\ pc # "responded"
       /\ error = "InvalidCursor"

\* C5: a request without collection-set id, community, contract and name
\* that leaves sortBy out is rejected, and no query reaches the store.
C5_UnselectiveRequestRejected ==
    (pc # "idle" /\ NoFilterNoSort(request))
    => /\ pc = "rejected"
       /\ Count("query") = 0

\* C6: with a collection-set id, the statement has an "id IN" predicate
\* exactly when the resolved list is non-empty; with an empty list the
\* statement, the page and the continuation are those of the same request
\* sent without the collection-set id.
C6_EmptySetAddsNoPredicate ==
    (pc \in {"querying", "responded"} /\ query.collectionsSetId # Undefined) =>
        LET ids   == getCollectionsIds(query.collectionsSetId)
            plain == AsQuery(ApplyDefaults([request EXCEPT !.collectionsSetId = Undefined]))
        IN  /\ (\E k \in 1..Len(sql.where) : sql.where[k].op = "IN") <=> ids # <<>>
            /\ ids = <<>> =>
                  /\ sql = BuildSql(plain, <<>>)
                  /\ Answered =>
                        /\ result \in StoreResults(BuildSql(plain, <<>>),
                                                   Params(plain, <<>>), snapshot)
                        /\ continuation = NextContinuation(result, plain, snapshot)

\* a request whose collection set resolved to nothing was answered with rows
C6_Witness ==
    /\ Answered
    /\ query.collectionsSetId = "set-empty"
    /\ result # <<>>

\* C7: the response to a request is the only response the same request can
\* get over the same snapshot.
C7_SameRequestSameResponse ==
    Answered =>
        \A rows \in StoreResults(sql, query, snapshot) :
            /\ rows = result
            /\ NextContinuation(rows, query, snapshot) = continuation

C9_SequentialCallsNoRetry ==
    /\ Count("resolve") <= 1
    /\ Count("query") <= 1
    /\ Count("resolve") = 1 => query.collectionsSetId # Undefined
    /\ \A k \in 1..Len(calls) :
          (calls[k] = "query" /\ query.collectionsSetId # Undefined)
          => k = 3 /\ calls[1] = "resolve" /\ calls[2] = "resolved"
    /\ Count("resolve-threw") > 0 =>
          /\ Count("query") = 0
          /\ pc = "failed"
          /\ error = "ResolverError"
    /\ Count("query-threw") > 0 =>
          /\ pc = "failed"
          /\ error = "StoreError"
    /\ pc = "failed" =>
          /\ result = <<>>
          /\ collections = <<>>
          /\ continuation = Null

\* the resolver failed on a later page of a walk
C9_Witness ==
    /\ pc = "failed"
    /\ error = "ResolverError"
    /\ cursors # <<>>

\* C10: a continuation returned to a request that carried one is strictly
\* smaller than the one carried, the continuations fed back in a walk
\* strictly decrease, and a walk feeds back at most as many as there are rows.
C10_CursorStrictlyDecreases ==
    /\ (Answered /\ query.continuation # Undefined /\ continuation # Null) =>
          ParseNumeric(continuation) < ParseNumeric(query.continuation)
    /\ \A k \in 1..(Len(cursors) - 1) :
          ParseNumeric(cursors[k + 1]) < ParseNumeric(cursors[k])
    /\ Len(cursors) <= MaxRows

\* a request that carried a continuation returned a further one
C10_Witness ==
    /\ Answered
    /\ query.continuation # Undefined
    /\ continuation # Null

====
